---- MODULE Spec2Model ----
(***************************************************************************)
(* Model of renderer/src/vector_image_renderer.rs (lyon): the bit-packed   *)
(* GpuAddress, the MemoryLayout allocator, GpuMemory, the vector image     *)
(* builder and its instances, and the layer builder with its Device.       *)
(*                                                                         *)
(* A u32 is written as a record [header, offset]: header is bits 31..24    *)
(* and offset is bits 23..0 of the word, so the word is                    *)
(* header * 2^24 + offset.  The split is the one GPU_ADDR_HEADER_MASK      *)
(* and GPU_ADDR_OFFSET_MASK make, and it keeps every number the model      *)
(* computes inside the model checker's integers.  Sums of two words are    *)
(* kept at full width (a header of 2^8 or more) until the code's own width *)
(* applies: an overflow panics in a build with overflow checks and wraps   *)
(* in a build without.                                                     *)
(***************************************************************************)
EXTENDS Integers, Sequences, FiniteSets, TLC

VARIABLES
    addr,          \* SpecAddr: the GpuAddress under test (NoAddr before construction)
    addr_call,     \* SpecAddr: the last GpuAddress call and its arguments
    addr_panic,    \* SpecAddr: TRUE once an assertion of GpuAddress has failed
    addr_adds,     \* SpecAddr: add_assign calls made on addr since its construction
    layout,        \* SpecLayout: the MemoryLayout {members, size, mem_type}
    layout_call,   \* SpecLayout: the last alloc call: its type, the layout before, the result
    layout_panic,  \* SpecLayout: TRUE once alloc has panicked
    overflow_checks, \* SpecLayout: TRUE in a build whose integer overflows panic
    mem,           \* SpecMem: the GpuMemory buffer, a sequence of words
    mem_records,   \* SpecMem: the address and word count of every block pushed
    mem_call,      \* SpecMem: the last push or set call, with the buffer before it
    mem_panic,     \* SpecMem: TRUE once a GpuMemory call has panicked
    mem_sets,      \* SpecMem: set calls made
    ctx,           \* Context: next_vector_image_id, next_geometry_id
    builder,       \* the VectorImageBuilder in use (NoBuilder when there is none)
    geom,          \* the GeometryBuilder in use (NoGeom when there is none)
    handles,       \* the ids the builder in use has returned, in call order
    img_call,      \* the last builder call, with the builder's gpu_data before it
    img_panic,     \* TRUE once a builder or instance call has panicked
    img_sets,      \* set_transform / set_color / instance set calls made
    images,        \* the shared VectorImage values (what the Arcs point to)
    instances,     \* the VectorImageInstance values: base (an image), gpu_data (a buffer)
    buffers,       \* the GpuMemory buffers the instances own
    inst_call,     \* SpecInstance: the last instance call, with every instance's words before it
    inst_panic,    \* SpecInstance: TRUE once a set on an instance has panicked
    inst_sets,     \* SpecInstance: set calls made on instances
    layer,         \* SpecLayer: the LayerBuilder {vector_images, z_index}
    layer_added,   \* SpecLayer: the instances given to add, in call order
    device,        \* SpecLayer: the Device behind the Context {alloc}
    dev_calls,     \* SpecLayer: the calls the Device has received, in order
    built,         \* SpecLayer: the Layer build returned (done is FALSE before)
    layer_panic,   \* SpecLayer: TRUE once build has panicked
    ctx_issued,    \* SpecContext: the Context calls made and the ids they handed out
    dev_range,    \* SpecDevice: the range shrink_left walks (NoRange before an allocation)
    range_call,    \* SpecDevice: the last Device or range call, with the range before it
    dev_panic,     \* SpecDevice: TRUE once a Device or range call has panicked
    layers,        \* SpecRender: the Layers built so far, in build order
    render_call    \* SpecRender: the last render_all call: its iterator, the Device calls before it

addrVars == <<addr, addr_call, addr_panic, addr_adds>>
layoutVars == <<layout, layout_call, layout_panic, overflow_checks>>
memVars == <<mem, mem_records, mem_call, mem_panic, mem_sets>>
imageVars == <<ctx, builder, geom, handles, img_call, img_panic, img_sets>>
instVars == <<images, instances, buffers, inst_call, inst_panic, inst_sets>>
layerVars == <<layer, layer_added, device, dev_calls, built, layer_panic>>
ctxVars == <<ctx_issued>>
rangeVars == <<dev_range, range_call, dev_panic>>
renderVars == <<layers, render_call>>
vars == <<addrVars, layoutVars, memVars, imageVars, instVars, layerVars, ctxVars, rangeVars, renderVars>>

(***************************************************************************)
(* Bounds of the model.                                                    *)
(***************************************************************************)
MaxOffset == 2        \* small offsets 0..MaxOffset are tried next to the extreme ones
MaxAdds == 2          \* add_assign calls on one address
MaxTypeSize == 6      \* DataType sizes 0..MaxTypeSize are tried next to the large ones
MaxMembers == 2       \* alloc calls on one MemoryLayout
MaxValue == 1         \* payloads 0..MaxValue tell the blocks written apart
MaxPushes == 2        \* push calls on one GpuMemory
MaxSets == 1          \* set calls on one GpuMemory
MaxOps == 4           \* pushes (add_transform, add_color, fill, stroke) on one builder
VertsPerPath == 2     \* vertices the tessellator makes of one path
MaxInstances == 2     \* instances of one image (the built one and its clones)
MaxInstSets == 2      \* writes to the memory of the instances
NumImages == 2        \* vector images whose instances a layer is given
MaxLayerAdds == 3     \* add calls on one LayerBuilder
MaxCtxCalls == 5      \* calls on one Context
MaxAllocSize == 2     \* words of a small allocation, and of a small shrink_left amount
MaxAllocs == 3        \* allocate_gpu_data calls on one Device
MaxShrinks == 3       \* shrink_left calls
MaxLayers == 2        \* Layers built on one Context
MaxRenders == 1       \* render_all calls

(***************************************************************************)
(* 32-bit words.                                                           *)
(***************************************************************************)
OffsetBits == 24
HeaderBits == 8
OffsetSpan == 2^OffsetBits          \* number of values of the offset field
HeaderSpan == 2^HeaderBits          \* number of values of the header field

Word(h, o) == [header |-> h, offset |-> o]
ToNat(w) == w.header * OffsetSpan + w.offset      \* defined for words below 2^31
FromNat(n) == Word(n \div OffsetSpan, n % OffsetSpan)

RECURSIVE BitAnd(_, _)
BitAnd(x, y) ==
    IF x = 0 \/ y = 0 THEN 0
    ELSE (IF x % 2 = 1 /\ y % 2 = 1 THEN 1 ELSE 0) + 2 * BitAnd(x \div 2, y \div 2)

RECURSIVE BitOr(_, _)
BitOr(x, y) ==
    IF x = 0 THEN y
    ELSE IF y = 0 THEN x
    ELSE (IF x % 2 = 1 \/ y % 2 = 1 THEN 1 ELSE 0) + 2 * BitOr(x \div 2, y \div 2)

And32(a, b) == Word(BitAnd(a.header, b.header), BitAnd(a.offset, b.offset))
Or32(a, b) == Word(BitOr(a.header, b.header), BitOr(a.offset, b.offset))

\* a + b at full width, and whether a sum still is a u32.
Add32(a, b) ==
    Word(a.header + b.header + ((a.offset + b.offset) \div OffsetSpan),
         (a.offset + b.offset) % OffsetSpan)
Fits32(w) == w.header < HeaderSpan
Wrap32(w) == Word(w.header % HeaderSpan, w.offset)

Less32(a, b) == a.header < b.header \/ (a.header = b.header /\ a.offset < b.offset)

\* a - b, for b <= a.
Sub32(a, b) ==
    IF a.offset >= b.offset THEN Word(a.header - b.header, a.offset - b.offset)
    ELSE Word(a.header - b.header - 1, a.offset + OffsetSpan - b.offset)

Bit32(x, i) ==
    IF i < OffsetBits THEN (x.offset \div 2^i) % 2
    ELSE (x.header \div 2^(i - OffsetBits)) % 2

\* x % y for y # 0, by long division from bit i down; r is the remainder so far.
RECURSIVE ModFrom(_, _, _, _)
ModFrom(x, y, i, r) ==
    IF i < 0 THEN r
    ELSE CHOOSE m \in {ModFrom(x, y, i - 1, IF Less32(d, y) THEN d ELSE Sub32(d, y)) :
                          d \in {Add32(Add32(r, r), Word(0, Bit32(x, i)))}} : TRUE

\* x % y for y # 0.  For a divisor below 2^12 the remainders of the two fields
\* are combined; otherwise long division, which starts one bit above the word
\* since the dividend may be a sum at full width.
Mod32(x, y) ==
    IF y.header = 0 /\ y.offset < 2^(OffsetBits \div 2)
    THEN Word(0, ((x.header % y.offset) * (OffsetSpan % y.offset) + x.offset) % y.offset)
    ELSE ModFrom(x, y, OffsetBits + HeaderBits, Word(0, 0))

(***************************************************************************)
(* GpuAddress.                                                             *)
(***************************************************************************)
GPU_ADDR_HEADER_MASK == Word(HeaderSpan - 1, 0)
GPU_ADDR_OFFSET_MASK == Word(0, OffsetSpan - 1)
GPU_ADDR_GLOBAL == Word(0, 0)
GPU_ADDR_INSTANCE == Word(2^(HeaderBits - 1), 0)
GPU_ADDR_SHARED == Word(2^(HeaderBits - 2), 0)

GpuAddressType == {"Global", "Instance", "Shared"}

NoAddr == [header |-> -1, offset |-> -1]

\* A call either returns a value or panics (assert!, panic!, index out of bounds).
Ok(v) == [panic |-> FALSE, value |-> v]
Panic(v) == [panic |-> TRUE, value |-> v]

HeaderOf(ty) ==
    CASE ty = "Global" -> GPU_ADDR_GLOBAL
      [] ty = "Instance" -> GPU_ADDR_INSTANCE
      [] ty = "Shared" -> GPU_ADDR_SHARED

NewDroppingHeader(ty, offset) ==
    IF And32(offset, GPU_ADDR_HEADER_MASK) # Word(0, 0) THEN Panic(NoAddr)
    ELSE Ok(offset)

GpuAddress_new(ty, offset) ==
    IF And32(offset, GPU_ADDR_HEADER_MASK) # Word(0, 0) THEN Panic(NoAddr)
    ELSE Ok(Or32(offset, HeaderOf(ty)))

GpuAddress_global(offset) ==
    IF And32(offset, GPU_ADDR_HEADER_MASK) # Word(0, 0) THEN Panic(NoAddr)
    ELSE Ok(offset)

GpuAddress_instance(offset) ==
    IF And32(offset, GPU_ADDR_HEADER_MASK) # Word(0, 0) THEN Panic(NoAddr)
    ELSE Ok(Or32(offset, GPU_ADDR_INSTANCE))

GpuAddress_shared(offset) ==
    IF And32(offset, GPU_ADDR_HEADER_MASK) # Word(0, 0) THEN Panic(NoAddr)
    ELSE Ok(Or32(offset, GPU_ADDR_SHARED))

\* "Invalid" stands for the panic of the match's last arm.
address_type(a) ==
    LET h == And32(a, GPU_ADDR_HEADER_MASK)
    IN  IF h = GPU_ADDR_INSTANCE THEN "Instance"
        ELSE IF h = GPU_ADDR_SHARED THEN "Shared"
        ELSE IF h = GPU_ADDR_GLOBAL THEN "Global"
        ELSE "Invalid"

offset(a) == ToNat(And32(a, GPU_ADDR_OFFSET_MASK))

\* self.0 += val; self.0 &= GPU_ADDR_OFFSET_MASK.  The sum carries from the
\* offset field into the header; it leaves 32 bits only from a header of 255,
\* which no constructor produces (that overflow panics in a debug build).
add_assign(a, val) ==
    IF And32(val, GPU_ADDR_HEADER_MASK) # Word(0, 0) THEN Panic(a)
    ELSE LET lo == a.offset + val.offset
             hi == a.header + val.header + (lo \div OffsetSpan)
         IN  IF hi >= HeaderSpan THEN Panic(a)
             ELSE Ok(And32(Word(hi, lo % OffsetSpan), GPU_ADDR_OFFSET_MASK))

(***************************************************************************)
(* DataType and MemoryLayout.                                              *)
(***************************************************************************)
\* alignment that is the size itself.
AlignmentIsSize(ty) == ty.size

DataType_alignment(ty) ==
    CASE ty.size = FromNat(1) -> FromNat(1)
      [] ty.size = FromNat(2) -> FromNat(2)
      [] ty.size = FromNat(3) -> FromNat(4)
      [] OTHER -> Word(ty.size.header, ty.size.offset - (ty.size.offset % 4))

MemoryLayout_new(mem_type) == [members |-> <<>>, size |-> FromNat(0), mem_type |-> mem_type]

AllocResult(panic, l, ret) == [panic |-> panic, layout |-> l, ret |-> ret]

\* The steps of alloc after the padding `adjust` is known.  `self.size + adjust`
\* and `self.size += adjust + ty.size()` are u32 sums: one that overflows panics
\* when `checks` holds and wraps otherwise.  GpuAddress::new panics when the
\* offset has a header bit set.  The member is pushed between the two.
AllocAt(l, ty, adjust, advance, checks) ==
    LET sum == Add32(l.size, adjust)
        a == GpuAddress_new(l.mem_type, Wrap32(sum))
        pushed == [l EXCEPT !.members = Append(@, [ty |-> ty, offset |-> a.value])]
        step == Add32(adjust, advance)
        total == Add32(l.size, Wrap32(step))
    IN  IF checks /\ ~Fits32(sum) THEN AllocResult(TRUE, l, NoAddr)
        ELSE IF a.panic THEN AllocResult(TRUE, l, NoAddr)
        ELSE IF checks /\ (~Fits32(step) \/ ~Fits32(total))
             THEN AllocResult(TRUE, pushed, NoAddr)
        ELSE AllocResult(FALSE, [pushed EXCEPT !.size = Wrap32(total)], a.value)

\* alloc with the padding left out: the member is placed at the current size.
AllocWithoutPadding(l, ty, checks) ==
    IF DataType_alignment(ty) = FromNat(0) THEN AllocResult(TRUE, l, NoAddr)
    ELSE AllocAt(l, ty, FromNat(0), ty.size, checks)

\* `self.size % alignment` panics when the alignment is 0 (a type of size 0),
\* before anything is changed.
MemoryLayout_alloc(l, ty, checks) ==
    LET alignment == DataType_alignment(ty)
    IN  IF alignment = FromNat(0) THEN AllocResult(TRUE, l, NoAddr)
        ELSE LET n == Mod32(l.size, alignment)
                 adjust == IF n = FromNat(0) THEN FromNat(0) ELSE Sub32(alignment, n)
             IN  AllocAt(l, ty, adjust, ty.size, checks)

(***************************************************************************)
(* GpuMemory.  A block is the sequence of words of a GpuBlock's slice().   *)
(***************************************************************************)
GpuMemory_new == <<>>

PushResult(panic, buffer, ret) == [panic |-> panic, buffer |-> buffer, ret |-> ret]

\* push that takes the address after the block is appended.
PushAddressAfterExtend(buffer, block) ==
    LET address == GpuAddress_global(FromNat(Len(buffer \o block)))
    IN  IF address.panic THEN PushResult(TRUE, buffer, NoAddr)
        ELSE PushResult(FALSE, buffer \o block, address.value)

\* The address is the buffer length before the block is appended.
GpuMemory_push(buffer, block) ==
    LET address == GpuAddress_global(FromNat(Len(buffer)))
    IN  IF address.panic THEN PushResult(TRUE, buffer, NoAddr)
        ELSE PushResult(FALSE, buffer \o block, address.value)

SetResult(panic, buffer) == [panic |-> panic, buffer |-> buffer]

\* `base` is the whole 32-bit word of the address, header included.  The loop
\* writes word after word and panics at the first index past the buffer's end;
\* the words written before that stay written.  A header of 2^7 or more puts
\* base past any buffer.
WriteAt(buffer, base, block) ==
    LET room == IF base >= Len(buffer) THEN 0 ELSE Len(buffer) - base
        written == IF Len(block) <= room THEN Len(block) ELSE room
    IN  SetResult(written < Len(block),
                  [i \in 1 .. Len(buffer) |->
                      IF base < i /\ i <= base + written THEN block[i - base]
                      ELSE buffer[i]])

\* set that writes one word further than the address.
SetOneWordLate(buffer, address, block) ==
    WriteAt(buffer, ToNat(address) + 1, block)

GpuMemory_set(buffer, address, block) ==
    IF address.header >= 2^(HeaderBits - 1)
    THEN SetResult(Len(block) > 0, buffer)
    ELSE WriteAt(buffer, ToNat(address), block)

(***************************************************************************)
(* Blocks.  A word is a pair: <<v, i>> is word i of a block of floats with *)
(* payload v, and <<n, 0>> is the u32 n stored as a word.                  *)
(***************************************************************************)
BlockOf(len, v) == [i \in 1 .. len |-> <<v, i>>]
U32Word(n) == <<n, 0>>

GpuColorF(v) == BlockOf(4, v)
GpuTransform2D(v) == BlockOf(8, v)

FillPrimitive_new(z, color, transforms) ==
    <<U32Word(z), U32Word(ToNat(color)),
      U32Word(ToNat(transforms[1])), U32Word(ToNat(transforms[2]))>>

StrokePrimitive_new(z, width, color, transforms) ==
    <<U32Word(z), <<width, 1>>, U32Word(ToNat(color)),
      U32Word(ToNat(transforms[1])), U32Word(ToNat(transforms[2])),
      U32Word(0), U32Word(0), U32Word(0)>>

(***************************************************************************)
(* VectorImageBuilder.                                                     *)
(***************************************************************************)
VectorImageBuilder_new(id) ==
    [gpu_data |-> GpuMemory_new,
     opaque_fill_cmds |-> <<>>,
     opaque_stroke_cmds |-> <<>>,
     z_index |-> 0,
     id |-> id,
     shared_data_layout |-> MemoryLayout_new("Shared"),
     instance_data_layout |-> MemoryLayout_new("Instance")]

GeometryBuilder_new(id) == [fill |-> <<>>, stroke |-> <<>>, id |-> id]

(***************************************************************************)
(* Context.                                                                *)
(***************************************************************************)
Context_new == [next_vector_image_id |-> 0, next_geometry_id |-> 0]

ContextResult(c, ret) == [ctx |-> c, ret |-> ret]

\* new_vector_image that hands out the counter without advancing it.
NewVectorImageSameCounter(c) ==
    ContextResult(c, VectorImageBuilder_new(c.next_vector_image_id))

new_vector_image(c) ==
    ContextResult([c EXCEPT !.next_vector_image_id = @ + 1],
                  VectorImageBuilder_new(c.next_vector_image_id))

new_geometry(c) ==
    ContextResult([c EXCEPT !.next_geometry_id = @ + 1],
                  GeometryBuilder_new(c.next_geometry_id))

BuilderResult(panic, b, ret) == [panic |-> panic, builder |-> b, ret |-> ret]

\* add_transform, add_color, add_fill_primitve, add_stroke_primitve: one push.
PushBlock(b, block) ==
    LET r == GpuMemory_push(b.gpu_data, block)
    IN  BuilderResult(r.panic, [b EXCEPT !.gpu_data = r.buffer], r.ret)

\* set_transform, set_color: one set.
SetBlock(b, id, block) ==
    LET r == GpuMemory_set(b.gpu_data, id, block)
    IN  BuilderResult(r.panic, [b EXCEPT !.gpu_data = r.buffer], id)

add_transform(b, transform) == PushBlock(b, transform)
set_transform(b, id, transform) == SetBlock(b, id, transform)
add_color(b, color) == PushBlock(b, color)
set_color(b, id, color) == SetBlock(b, id, color)

ColorPattern(color) == [kind |-> "Color", color |-> color]
ImagePattern == [kind |-> "Image", color |-> NoAddr]

\* fill that reads the z-index after advancing it.
FillZAfterIncrement(b, shape, style, transforms) ==
    LET b1 == [b EXCEPT !.z_index = @ + 1]
        z == b1.z_index
    IN  IF style.kind # "Color" THEN BuilderResult(TRUE, b1, NoAddr)
        ELSE LET r == PushBlock(b1, FillPrimitive_new(z, style.color, transforms))
             IN  IF r.panic THEN r
                 ELSE BuilderResult(FALSE,
                          [r.builder EXCEPT !.opaque_fill_cmds =
                              Append(@, [shape |-> shape, prim_address |-> r.ret])],
                          r.ret)

\* fill that takes a pattern other than Pattern::Color for the color at word 0.
FillAnyPattern(b, shape, style, transforms) ==
    LET z == b.z_index
        b1 == [b EXCEPT !.z_index = @ + 1]
        color == IF style.kind = "Color" THEN style.color ELSE GpuAddress_global(FromNat(0)).value
        r == PushBlock(b1, FillPrimitive_new(z, color, transforms))
    IN  IF r.panic THEN r
        ELSE BuilderResult(FALSE,
                 [r.builder EXCEPT !.opaque_fill_cmds =
                     Append(@, [shape |-> shape, prim_address |-> r.ret])],
                 r.ret)

\* z_index is advanced before the pattern is matched; a pattern other than
\* Pattern::Color is unimplemented!().
fill(b, shape, style, transforms) ==
    LET z == b.z_index
        b1 == [b EXCEPT !.z_index = @ + 1]
    IN  IF style.kind # "Color" THEN BuilderResult(TRUE, b1, NoAddr)
        ELSE LET r == PushBlock(b1, FillPrimitive_new(z, style.color, transforms))
             IN  IF r.panic THEN r
                 ELSE BuilderResult(FALSE,
                          [r.builder EXCEPT !.opaque_fill_cmds =
                              Append(@, [shape |-> shape, prim_address |-> r.ret])],
                          r.ret)

stroke(b, shape, style, options, transforms) ==
    LET z == b.z_index
        b1 == [b EXCEPT !.z_index = @ + 1]
    IN  IF style.kind # "Color" THEN BuilderResult(TRUE, b1, NoAddr)
        ELSE LET r == PushBlock(b1, StrokePrimitive_new(z, options.line_width,
                                                        style.color, transforms))
             IN  IF r.panic THEN r
                 ELSE BuilderResult(FALSE,
                          [r.builder EXCEPT !.opaque_stroke_cmds =
                              Append(@, [shape |-> shape, prim_address |-> r.ret,
                                         options |-> options])],
                          r.ret)

\* new_vertex that leaves the primitive id at its default.
NewVertexWithoutPrim(ctor, vertex) == [position |-> vertex, prim_id |-> 0]

\* VertexCtor::new_vertex: the vertex carries the primitive's address as i32.
new_vertex(ctor, vertex) == [position |-> vertex, prim_id |-> ToNat(ctor)]

\* The tessellator, which calls the vertex constructor once per vertex.
tessellate_path(ctor) == [v \in 1 .. VertsPerPath |-> new_vertex(ctor, v)]

\* replayed lists the primitives of the commands given to a tessellator so far.
ReplayResult(panic, vertices, replayed) ==
    [panic |-> panic, vertices |-> vertices, replayed |-> replayed]

\* A replay from the first command recorded to the last.
RECURSIVE ReplayInOrder(_, _, _)
ReplayInOrder(cmds, vertices, replayed) ==
    IF cmds = <<>> THEN ReplayResult(FALSE, vertices, replayed)
    ELSE LET cmd == Head(cmds)
         IN  IF cmd.shape # "Path" THEN ReplayResult(TRUE, vertices, replayed)
             ELSE ReplayInOrder(Tail(cmds),
                                vertices \o tessellate_path(cmd.prim_address),
                                Append(replayed, cmd.prim_address))

\* `for cmd in cmds.into_iter().rev()`: the commands from the last recorded
\* to the first; a shape other than Shape::Path is unimplemented!().
RECURSIVE Replay(_, _, _)
Replay(cmds, vertices, replayed) ==
    IF cmds = <<>> THEN ReplayResult(FALSE, vertices, replayed)
    ELSE LET cmd == cmds[Len(cmds)]
         IN  IF cmd.shape # "Path" THEN ReplayResult(TRUE, vertices, replayed)
             ELSE Replay(SubSeq(cmds, 1, Len(cmds) - 1),
                         vertices \o tessellate_path(cmd.prim_address),
                         Append(replayed, cmd.prim_address))

\* clone_instance that hands out the same GpuMemory instead of a copy of it.
CloneSharingMemory(insts, bufs, i) ==
    [instances |-> Append(insts, [base |-> insts[i].base, gpu_data |-> insts[i].gpu_data]),
     buffers |-> bufs]

\* Arc::clone of the base (the same image) and a copy of the GpuMemory.
clone_instance(insts, bufs, i) ==
    [instances |-> Append(insts, [base |-> insts[i].base, gpu_data |-> Len(bufs) + 1]),
     buffers |-> Append(bufs, bufs[insts[i].gpu_data])]

BuildResult(panic, g, image, gpu_data, replayed) ==
    [panic |-> panic, geom |-> g, image |-> image, gpu_data |-> gpu_data,
     replayed |-> replayed]

\* The loop over the fill commands runs, to its end or to a panic, before the
\* loop over the stroke commands starts.
VectorImageBuilder_build(b, g) ==
    LET fills == Replay(b.opaque_fill_cmds, g.fill, <<>>)
        strokes == Replay(b.opaque_stroke_cmds, g.stroke, fills.replayed)
        g1 == [g EXCEPT !.fill = fills.vertices]
        g2 == [g1 EXCEPT !.stroke = strokes.vertices]
        descriptor ==
            [geometry |-> g.id,
             id |-> b.id,
             z_range |-> b.z_index,
             mem_per_instance |-> Len(b.gpu_data),
             contains_fill_ops |-> Len(b.opaque_fill_cmds) > 0,
             contains_stroke_ops |-> Len(b.opaque_stroke_cmds) > 0,
             shared_data_layout |-> b.shared_data_layout,
             instance_data_layout |-> b.instance_data_layout]
    IN  IF fills.panic THEN BuildResult(TRUE, g1, descriptor, b.gpu_data, fills.replayed)
        ELSE IF strokes.panic
             THEN BuildResult(TRUE, g2, descriptor, b.gpu_data, strokes.replayed)
        ELSE BuildResult(FALSE, g2, descriptor, b.gpu_data, strokes.replayed)

(***************************************************************************)
(* GpuAddressRange and the Device.                                         *)
(***************************************************************************)
GpuAddressRange(start, end) == [start |-> start, end |-> end]
NoRange == GpuAddressRange(NoAddr, NoAddr)
is_empty(r) == r.start = r.end

\* end.offset() - start.offset() as a u32: below zero it panics in a build with
\* overflow checks and wraps around in one without.
OffsetDistance(r, checks) ==
    LET e == FromNat(offset(r.end))
        s == FromNat(offset(r.start))
    IN  IF ~Less32(e, s) THEN Ok(Sub32(e, s))
        ELSE IF checks THEN Panic(Word(0, 0))
        ELSE Ok(Sub32(Add32(e, Word(HeaderSpan, 0)), s))

\* assert!(end.offset() - start.offset() >= amount), then start.add_assign(amount).
shrink_left(r, amount, checks) ==
    LET d == OffsetDistance(r, checks)
    IN  IF d.panic \/ Less32(d.value, amount) THEN Panic(r)
        ELSE LET a == add_assign(r.start, amount)
             IN  IF a.panic THEN Panic(r) ELSE Ok([r EXCEPT !.start = a.value])

Device_new == [alloc |-> 0]

DeviceResult(panic, dev, ret) == [panic |-> panic, device |-> dev, ret |-> ret]

\* GfxDevice and the test's DummyDevice: a bump allocator.  `alloc += size` is
\* a u32 sum: past 2^32 it panics in a build with overflow checks and wraps
\* around in one without.  A panic ends the process with the device.
allocate_gpu_data(dev, size, checks) ==
    LET start == GpuAddress_global(FromNat(dev.alloc))
        sum == Add32(FromNat(dev.alloc), size)
        end == GpuAddress_global(Wrap32(sum))
    IN  IF start.panic \/ (checks /\ ~Fits32(sum)) \/ end.panic
        THEN DeviceResult(TRUE, dev, NoRange)
        ELSE DeviceResult(FALSE, [dev EXCEPT !.alloc = ToNat(Wrap32(sum))],
                          GpuAddressRange(start.value, end.value))

\* The upload itself is the backend's; the Device asserts the range is allocated.
set_gpu_data(dev, range, data) ==
    DeviceResult(~(dev.alloc >= offset(range.end)), dev, range)

(***************************************************************************)
(* LayerBuilder.  vector_images, a HashMap, is a function on the ids       *)
(* present; build visits its entries in an order the map chooses.          *)
(***************************************************************************)
LayerBuilder_new == [vector_images |-> <<>>, z_index |-> 0]

LayerVectorImage(descriptor) ==
    [descriptor |-> descriptor, instances |-> <<>>, allocated_range |-> NoRange]

\* add that advances the layer's z-offset by one instead of the image's z_range.
AddAdvancingByOne(l, imgs, insts, i) ==
    LET img == imgs[insts[i].base]
        key == img.id + 1
        entries == IF key \in DOMAIN l.vector_images THEN l.vector_images
                   ELSE l.vector_images @@ (key :> LayerVectorImage(img))
    IN  [vector_images |->
             [entries EXCEPT ![key].instances =
                 Append(@, [instance |-> i, z_index |-> l.z_index])],
         z_index |-> l.z_index + 1]

\* add(instance), the instance being number i of `insts`.
LayerBuilder_add(l, imgs, insts, i) ==
    LET img == imgs[insts[i].base]
        key == img.id + 1
        entries == IF key \in DOMAIN l.vector_images THEN l.vector_images
                   ELSE l.vector_images @@ (key :> LayerVectorImage(img))
    IN  [vector_images |->
             [entries EXCEPT ![key].instances =
                 Append(@, [instance |-> i, z_index |-> l.z_index])],
         z_index |-> l.z_index + img.z_range]

RECURSIVE InsertByZ(_, _)
InsertByZ(sorted, x) ==
    IF sorted = <<>> \/ sorted[Len(sorted)].z_index <= x.z_index THEN Append(sorted, x)
    ELSE Append(InsertByZ(SubSeq(sorted, 1, Len(sorted) - 1), x), sorted[Len(sorted)])

\* A sort that puts the later of two entries first.
RECURSIVE SortReversing(_)
SortReversing(s) ==
    IF s = <<>> THEN <<>>
    ELSE <<s[Len(s)]>> \o SortReversing(SubSeq(s, 1, Len(s) - 1))

\* sort_by on z_index; the slice sort is stable.
RECURSIVE SortByZ(_)
SortByZ(s) ==
    IF s = <<>> THEN <<>>
    ELSE InsertByZ(SortByZ(SubSeq(s, 1, Len(s) - 1)), s[Len(s)])

\* The size build asks the Device for.
AllocSizeOneInstanceMore(descriptor, num_instances) ==
    descriptor.mem_per_instance * (num_instances + 1)

AllocSize(descriptor, num_instances) == descriptor.mem_per_instance * num_instances

DrawCmdOneInstance(geometry, num_instances, base_address) ==
    [geometry |-> geometry, num_instances |-> 1, base_address |-> base_address]

DrawCmd(geometry, num_instances, base_address) ==
    [geometry |-> geometry, num_instances |-> num_instances, base_address |-> base_address]

BuildState(dev, calls, fill_pass, stroke_pass, panic) ==
    [device |-> dev, calls |-> calls, fill_pass |-> fill_pass,
     stroke_pass |-> stroke_pass, panic |-> panic]

UploadState(calls, panic) == [calls |-> calls, panic |-> panic]

\* `for img_instance in &item.instances`: each instance is uploaded with
\* `range`, the whole allocation; range_iter is shrunk and not otherwise used.
\* A call is logged with the instance whose gpu_data it was given.
RECURSIVE UploadInstances(_, _, _, _, _, _, _, _, _)
UploadInstances(todo, range, range_iter, descriptor, bufs_of, dev, calls, panic, checks) ==
    IF todo = <<>> \/ panic THEN UploadState(calls, panic)
    ELSE LET shrunk == shrink_left(range_iter, FromNat(descriptor.mem_per_instance), checks)
         IN  UploadInstances(
                 Tail(todo), range, shrunk.value, descriptor, bufs_of, dev,
                 Append(calls, [op |-> "set_gpu_data", range |-> range,
                                instance |-> Head(todo).instance]),
                 \/ set_gpu_data(dev, range, bufs_of[Head(todo).instance]).panic
                 \/ shrunk.panic,
                 checks)

\* The body of `for (_, item) in &mut self.vector_images` for the entry `key`.
BuildItem(l, key, bufs_of, st, checks) ==
    LET item == l.vector_images[key]
        sorted == SortByZ(item.instances)
        num_instances == Len(sorted)
        size == AllocSize(item.descriptor, num_instances)
        got == allocate_gpu_data(st.device, FromNat(size), checks)
        range == got.ret
        st1 == [st EXCEPT !.device = got.device,
                          !.calls = Append(@, [op |-> "allocate_gpu_data", size |-> size,
                                               range |-> range]),
                          !.panic = got.panic]
        up == UploadInstances(sorted, range, range, item.descriptor, bufs_of,
                              st1.device, st1.calls, st1.panic, checks)
        st2 == [st1 EXCEPT !.calls = up.calls, !.panic = up.panic]
        cmd == DrawCmd(item.descriptor.geometry, num_instances, range.start)
        st3 == [st2 EXCEPT
                  !.fill_pass = IF item.descriptor.contains_fill_ops
                                THEN Append(@, cmd) ELSE @,
                  !.stroke_pass = IF item.descriptor.contains_stroke_ops
                                  THEN Append(@, cmd) ELSE @]
    IN  [layer |-> [l EXCEPT !.vector_images[key].instances = sorted,
                             !.vector_images[key].allocated_range = range],
         st |-> IF st2.panic THEN st2 ELSE st3]

\* The loop over the entries; each entry's outcome is bound once it is computed.
RECURSIVE BuildItems(_, _, _, _, _)
BuildItems(order, l, bufs_of, st, checks) ==
    IF order = <<>> \/ st.panic THEN [layer |-> l, st |-> st]
    ELSE CHOOSE done \in {BuildItems(Tail(order), r.layer, bufs_of, r.st, checks) :
                             r \in {BuildItem(l, Head(order), bufs_of, st, checks)}} : TRUE

\* build, the map handing out its entries in the order `order`.
LayerBuilder_build(l, order, bufs_of, dev, checks) ==
    BuildItems(order, l, bufs_of, BuildState(dev, <<>>, <<>>, <<>>, FALSE), checks)

(***************************************************************************)
(* Layer.  Device::render_pass draws in the backend; what the Device is    *)
(* given, the commands and the options, is appended to its calls.          *)
(***************************************************************************)
RenderPassOptions(vertex_type) ==
    [vertex_type |-> vertex_type, enable_blending |-> FALSE,
     enable_depth_write |-> TRUE, enable_depth_test |-> TRUE, effect |-> 0]

render_pass(calls, cmds, options) ==
    Append(calls, [op |-> "render_pass", cmds |-> cmds, options |-> options])

render_opaque_fills(l, calls) == render_pass(calls, l.fill_pass, RenderPassOptions("Fill"))

render_opaque_strokes(l, calls) ==
    render_pass(calls, l.stroke_pass, RenderPassOptions("Stroke"))

\* `for layer in layer_iter.clone() { layer.render_opaque_fills(ctx); }`
RECURSIVE RenderFills(_, _)
RenderFills(layer_iter, calls) ==
    IF layer_iter = <<>> THEN calls
    ELSE RenderFills(Tail(layer_iter), render_opaque_fills(Head(layer_iter), calls))

\* `for layer in layer_iter.clone() { layer.render_opaque_strokes(ctx); }`
RECURSIVE RenderStrokes(_, _)
RenderStrokes(layer_iter, calls) ==
    IF layer_iter = <<>> THEN calls
    ELSE RenderStrokes(Tail(layer_iter), render_opaque_strokes(Head(layer_iter), calls))

\* A render_all with one loop, which renders the two passes of a layer in turn.
RECURSIVE RenderLayerByLayer(_, _)
RenderLayerByLayer(layer_iter, calls) ==
    IF layer_iter = <<>> THEN calls
    ELSE RenderLayerByLayer(
             Tail(layer_iter),
             render_opaque_strokes(Head(layer_iter),
                                   render_opaque_fills(Head(layer_iter), calls)))

render_all(layer_iter, calls) == RenderStrokes(layer_iter, RenderFills(layer_iter, calls))

(***************************************************************************)
(* SpecAddr: GpuAddress constructors and accessors on sampled words.       *)
(***************************************************************************)
HeaderSamples == {0, 1, 2^(HeaderBits - 2), 2^(HeaderBits - 1), HeaderSpan - 1}
OffsetSamples == (0 .. MaxOffset) \cup {OffsetSpan - 1 - MaxOffset, OffsetSpan - 1}
WordSamples == {Word(h, o) : h \in HeaderSamples, o \in OffsetSamples}

InitAddr ==
    /\ addr = NoAddr
    /\ addr_call = [op |-> "none", ty |-> "Global", arg |-> Word(0, 0), before |-> NoAddr]
    /\ addr_panic = FALSE
    /\ addr_adds = 0

AddrReturn(op, ty, arg, res) ==
    /\ UNCHANGED <<layoutVars, memVars, imageVars, instVars, layerVars, ctxVars, rangeVars, renderVars>>
    /\ addr_adds' = IF op = "add_assign" THEN addr_adds + 1 ELSE 0
    /\ addr' = res.value
    /\ addr_panic' = res.panic
    /\ addr_call' = [op |-> op, ty |-> ty, arg |-> arg, before |-> addr]

AddrNew ==
    /\ ~addr_panic
    /\ \E ty \in GpuAddressType, o \in WordSamples :
          AddrReturn("new", ty, o, GpuAddress_new(ty, o))

AddrGlobal ==
    /\ ~addr_panic
    /\ \E o \in WordSamples : AddrReturn("global", "Global", o, GpuAddress_global(o))

AddrInstance ==
    /\ ~addr_panic
    /\ \E o \in WordSamples : AddrReturn("instance", "Instance", o, GpuAddress_instance(o))

AddrShared ==
    /\ ~addr_panic
    /\ \E o \in WordSamples : AddrReturn("shared", "Shared", o, GpuAddress_shared(o))

AddrAddAssign ==
    /\ ~addr_panic
    /\ addr # NoAddr
    /\ addr_adds < MaxAdds
    /\ \E v \in WordSamples :
          AddrReturn("add_assign", address_type(addr), v, add_assign(addr, v))

NextAddr ==
    \/ AddrNew
    \/ AddrGlobal
    \/ AddrInstance
    \/ AddrShared
    \/ AddrAddAssign

(***************************************************************************)
(* SpecLayout: alloc calls on one MemoryLayout.                            *)
(***************************************************************************)
\* Sizes 0 .. MaxTypeSize and 16 (transform_3d), the first size past the
\* offset field, and the last multiple of 4 a u32 holds.
TypeSizes ==
    {FromNat(n) : n \in (0 .. MaxTypeSize) \cup {16}}
        \cup {Word(1, 0), Word(HeaderSpan - 1, OffsetSpan - 4)}

\* The types the constructors make (int .. ivec4, float .. vec4, the
\* transforms) and float types of the other sizes, size being a public field.
DataTypes ==
    {[scalar |-> "I32", size |-> FromNat(n)] : n \in 1 .. 4}
        \cup {[scalar |-> "F32", size |-> z] : z \in TypeSizes}

NoCall == [op |-> "none"]

IdleLayout ==
    /\ layout = MemoryLayout_new("Shared")
    /\ layout_call = NoCall
    /\ layout_panic = FALSE
    /\ overflow_checks = TRUE

InitLayout ==
    /\ \E mem_type \in GpuAddressType : layout = MemoryLayout_new(mem_type)
    /\ layout_call = NoCall
    /\ layout_panic = FALSE
    /\ overflow_checks \in BOOLEAN

Alloc ==
    /\ ~layout_panic
    /\ Len(layout.members) < MaxMembers
    /\ \E ty \in DataTypes :
          \E r \in {MemoryLayout_alloc(layout, ty, overflow_checks)} :
              /\ layout' = r.layout
              /\ layout_panic' = r.panic
              /\ layout_call' = [op |-> "alloc", ty |-> ty, before |-> layout, ret |-> r.ret,
                                  alignment |-> DataType_alignment(ty)]
    /\ UNCHANGED overflow_checks
    /\ UNCHANGED <<addrVars, memVars, imageVars, instVars, layerVars, ctxVars, rangeVars, renderVars>>

NextLayout == Alloc

(***************************************************************************)
(* SpecMem: push and set calls on one GpuMemory.  The blocks are the ones  *)
(* of 4 and of 8 words; the words of a block carry its payload and their   *)
(* position in it.                                                         *)
(***************************************************************************)
Values == 0 .. MaxValue
BlockLens == {4, 8}
Blocks == {BlockOf(len, v) : len \in BlockLens, v \in Values}

InitMem ==
    /\ mem = GpuMemory_new
    /\ mem_records = <<>>
    /\ mem_call = NoCall
    /\ mem_panic = FALSE
    /\ mem_sets = 0

MemPush ==
    /\ ~mem_panic
    /\ Len(mem_records) < MaxPushes
    /\ \E block \in Blocks :
          LET r == GpuMemory_push(mem, block)
          IN  /\ mem' = r.buffer
              /\ mem_panic' = r.panic
              /\ mem_records' = IF r.panic THEN mem_records
                                ELSE Append(mem_records, [addr |-> r.ret, len |-> Len(block)])
              /\ mem_call' = [op |-> "push", block |-> block, before |-> mem, addr |-> r.ret]
              /\ UNCHANGED <<mem_sets, addrVars, layoutVars, imageVars, instVars, layerVars, ctxVars, rangeVars, renderVars>>

MemSet ==
    /\ ~mem_panic
    /\ mem_sets < MaxSets
    /\ \E k \in 1 .. Len(mem_records), block \in Blocks :
          LET r == GpuMemory_set(mem, mem_records[k].addr, block)
          IN  /\ mem' = r.buffer
              /\ mem_panic' = r.panic
              /\ mem_call' = [op |-> "set", block |-> block, before |-> mem,
                              addr |-> mem_records[k].addr, record |-> k]
              /\ mem_sets' = mem_sets + 1
              /\ UNCHANGED <<mem_records, addrVars, layoutVars, imageVars, instVars, layerVars, ctxVars, rangeVars, renderVars>>

NextMem ==
    \/ MemPush
    \/ MemSet

(***************************************************************************)
(* SpecImage: one VectorImageBuilder, from new_vector_image to build.       *)
(***************************************************************************)
NoBuilder == [id |-> -1]
NoGeom == [id |-> -1]
Shapes == {"Path", "Circle"}
DefaultStrokeOptions == [line_width |-> 1]

\* The state after Context::new, ctx.new_vector_image() and ctx.new_geometry().
InitImage ==
    LET b == new_vector_image(Context_new)
        g == new_geometry(b.ctx)
    IN  /\ ctx = g.ctx
        /\ builder = b.ret
        /\ geom = g.ret
    /\ handles = <<>>
    /\ img_call = NoCall
    /\ img_panic = FALSE
    /\ img_sets = 0

NoIssued == ctx_issued = <<>>

NoRender ==
    /\ layers = <<>>
    /\ render_call = [op |-> "none", count |-> 0]

NoRangeCall ==
    /\ dev_range = NoRange
    /\ range_call = [op |-> "none", shrinks |-> 0]
    /\ dev_panic = FALSE

NoInstances ==
    /\ images = <<>>
    /\ instances = <<>>
    /\ buffers = <<>>
    /\ inst_call = NoCall
    /\ inst_panic = FALSE
    /\ inst_sets = 0

HandlesOf(kind) == {handles[k].addr : k \in {j \in 1 .. Len(handles) : handles[j].kind = kind}}

ImageFrame == UNCHANGED <<addrVars, layoutVars, memVars, layerVars, ctxVars, rangeVars, renderVars>>

\* The outcome of a builder call that pushes a block; args are the ids the
\* call was given (the color and the two transforms of a fill or a stroke).
Pushed(op, kind, args, r) ==
    /\ builder' = r.builder
    /\ img_panic' = r.panic
    /\ handles' = IF r.panic THEN handles
                  ELSE Append(handles, [kind |-> kind, addr |-> r.ret, args |-> args,
                                        len |-> Len(r.builder.gpu_data) - Len(builder.gpu_data)])
    /\ img_call' = [op |-> op, ret |-> r.ret, args |-> args, before |-> builder.gpu_data,
                     cmds |-> <<builder.opaque_fill_cmds, builder.opaque_stroke_cmds>>]
    /\ UNCHANGED <<ctx, geom, img_sets, instVars>>
    /\ ImageFrame

CanPush ==
    /\ ~img_panic
    /\ builder # NoBuilder
    /\ Len(handles) < MaxOps

\* Blocks are pushed with payload 0; the set calls write the other payloads.
AddTransform ==
    /\ CanPush
    /\ Pushed("add_transform", "transform", <<>>, add_transform(builder, GpuTransform2D(0)))

AddColor ==
    /\ CanPush
    /\ Pushed("add_color", "color", <<>>, add_color(builder, GpuColorF(0)))

Styles == {ColorPattern(c) : c \in HandlesOf("color")} \cup {ImagePattern}

Fill ==
    /\ CanPush
    /\ \E shape \in Shapes, style \in Styles, t0, t1 \in HandlesOf("transform") :
          Pushed("fill", "fill", <<style.color, t0, t1>>,
                 fill(builder, shape, style, <<t0, t1>>))

Stroke ==
    /\ CanPush
    /\ \E shape \in Shapes, style \in Styles, t0, t1 \in HandlesOf("transform") :
          Pushed("stroke", "stroke", <<style.color, t0, t1>>,
                 stroke(builder, shape, style, DefaultStrokeOptions, <<t0, t1>>))

\* The outcome of a builder call that overwrites a block.
Overwritten(op, r) ==
    /\ builder' = r.builder
    /\ img_panic' = r.panic
    /\ img_sets' = img_sets + 1
    /\ img_call' = [op |-> op, ret |-> r.ret, before |-> builder.gpu_data]
    /\ UNCHANGED <<ctx, geom, handles, instVars>>
    /\ ImageFrame

CanSet ==
    /\ ~img_panic
    /\ builder # NoBuilder
    /\ img_sets < MaxSets

SetTransform ==
    /\ CanSet
    /\ \E id \in HandlesOf("transform"), v \in Values :
          Overwritten("set_transform", set_transform(builder, id, GpuTransform2D(v)))

SetColor ==
    /\ CanSet
    /\ \E id \in HandlesOf("color"), v \in Values :
          Overwritten("set_color", set_color(builder, id, GpuColorF(v)))

\* build consumes the builder and returns the first instance of the image.
BuildImage ==
    /\ ~img_panic
    /\ builder # NoBuilder
    /\ geom # NoGeom
    /\ LET r == VectorImageBuilder_build(builder, geom)
       IN  /\ img_panic' = r.panic
           /\ geom' = r.geom
           /\ builder' = NoBuilder
           /\ img_call' = [op |-> "build", ret |-> Len(instances) + 1, before |-> builder,
                            replayed |-> r.replayed]
           /\ UNCHANGED <<inst_call, inst_panic, inst_sets>>
           /\ IF r.panic THEN UNCHANGED <<images, instances, buffers>>
              ELSE /\ images' = Append(images, r.image)
                   /\ buffers' = Append(buffers, r.gpu_data)
                   /\ instances' = Append(instances, [base |-> Len(images) + 1,
                                                      gpu_data |-> Len(buffers) + 1])
    /\ UNCHANGED <<ctx, handles, img_sets>>
    /\ ImageFrame

NextImage ==
    \/ AddTransform
    \/ AddColor
    \/ Fill
    \/ Stroke
    \/ SetTransform
    \/ SetColor
    \/ BuildImage

(***************************************************************************)
(* SpecInstance: the instance of a built image, its clones, and writes to  *)
(* their memory.  The image is built by one of a few builder call          *)
(* sequences, run through the builder's own operations.                    *)
(***************************************************************************)
Recipes == {<<"T", "C", "F">>, <<"C", "T", "S">>, <<"T", "C", "F", "S">>, <<"T", "C", "S", "F">>}

RunState(b, hs) == [builder |-> b, handles |-> hs]

LastHandle(hs, kind) ==
    hs[CHOOSE k \in 1 .. Len(hs) :
          /\ hs[k].kind = kind
          /\ \A j \in k + 1 .. Len(hs) : hs[j].kind # kind].addr

RunStep(st, op) ==
    LET b == st.builder
        args == IF op \in {"F", "S"}
                THEN <<LastHandle(st.handles, "color"), LastHandle(st.handles, "transform"),
                       LastHandle(st.handles, "transform")>>
                ELSE <<>>
        r == CASE op = "T" -> add_transform(b, GpuTransform2D(0))
               [] op = "C" -> add_color(b, GpuColorF(0))
               [] op = "F" -> fill(b, "Path", ColorPattern(LastHandle(st.handles, "color")),
                                   <<LastHandle(st.handles, "transform"),
                                     LastHandle(st.handles, "transform")>>)
               [] op = "S" -> stroke(b, "Path", ColorPattern(LastHandle(st.handles, "color")),
                                     DefaultStrokeOptions,
                                     <<LastHandle(st.handles, "transform"),
                                       LastHandle(st.handles, "transform")>>)
        kind == CASE op = "T" -> "transform" [] op = "C" -> "color"
                  [] op = "F" -> "fill" [] op = "S" -> "stroke"
    IN  RunState(r.builder, Append(st.handles, [kind |-> kind, addr |-> r.ret, args |-> args,
                                        len |-> Len(r.builder.gpu_data) - Len(b.gpu_data)]))

RECURSIVE RunRecipe(_, _)
RunRecipe(recipe, st) ==
    IF recipe = <<>> THEN st
    ELSE RunRecipe(Tail(recipe), RunStep(st, Head(recipe)))

\* The builder with id `id` after the calls of `recipe`, and its handles.
Authored(recipe, id) == RunRecipe(recipe, RunState(VectorImageBuilder_new(id), <<>>))

\* What build returns for that builder and a fresh geometry.
Built(recipe, id) ==
    VectorImageBuilder_build(Authored(recipe, id).builder, GeometryBuilder_new(id))

InitInstance ==
    \E recipe \in Recipes :
        LET st == Authored(recipe, 0)
            r == Built(recipe, 0)
        IN  /\ ctx = [next_vector_image_id |-> 1, next_geometry_id |-> 1]
            /\ builder = NoBuilder
            /\ geom = r.geom
            /\ handles = st.handles
            /\ img_call = [op |-> "build", ret |-> 1, before |-> st.builder]
            /\ img_panic = FALSE
            /\ img_sets = 0
            /\ images = <<r.image>>
            /\ buffers = <<r.gpu_data>>
            /\ instances = <<[base |-> 1, gpu_data |-> 1]>>
            /\ inst_call = NoCall
            /\ inst_panic = FALSE
            /\ inst_sets = 0

InstMem(i) == buffers[instances[i].gpu_data]
AllInstMem == [i \in 1 .. Len(instances) |-> InstMem(i)]

InstanceFrame == UNCHANGED <<addrVars, layoutVars, memVars, imageVars, layerVars, ctxVars, rangeVars, renderVars>>

CloneInstance ==
    /\ ~inst_panic
    /\ Len(instances) < MaxInstances
    /\ \E i \in 1 .. Len(instances) :
          LET r == clone_instance(instances, buffers, i)
          IN  /\ instances' = r.instances
              /\ buffers' = r.buffers
              /\ inst_call' = [op |-> "clone_instance", inst |-> i, before |-> AllInstMem,
                               bases |-> [j \in 1 .. Len(instances) |-> instances[j].base],
                               images |-> images]
    /\ UNCHANGED <<images, inst_panic, inst_sets>>
    /\ InstanceFrame

\* A transform or a color written over the one at `id` in instance i's memory.
InstanceSet ==
    /\ ~inst_panic
    /\ inst_sets < MaxInstSets
    /\ \E i \in 1 .. Len(instances), v \in Values, kind \in {"transform", "color"} :
       \E id \in HandlesOf(kind) :
          LET block == IF kind = "transform" THEN GpuTransform2D(v) ELSE GpuColorF(v)
              r == GpuMemory_set(InstMem(i), id, block)
          IN  /\ buffers' = [buffers EXCEPT ![instances[i].gpu_data] = r.buffer]
              /\ inst_panic' = r.panic
              /\ inst_call' = [op |-> "set", inst |-> i, before |-> AllInstMem,
                               bases |-> [j \in 1 .. Len(instances) |-> instances[j].base],
                               images |-> images, addr |-> id, block |-> block]
    /\ inst_sets' = inst_sets + 1
    /\ UNCHANGED <<images, instances>>
    /\ InstanceFrame

NextInstance ==
    \/ CloneInstance
    \/ InstanceSet

(***************************************************************************)
(* SpecLayer: one LayerBuilder, from new_layer to build.  The Context has  *)
(* built NumImages images; of each there is the built instance and a clone *)
(* whose first color was overwritten.                                      *)
(***************************************************************************)
NoLayer == [done |-> FALSE, fill_pass |-> <<>>, stroke_pass |-> <<>>]
RecipeList == <<<<"T", "C", "F">>, <<"C", "T", "S">>, <<"T", "C", "F", "S">>,
                <<"T", "C">>, <<"T", "C", "S", "F">>>>

\* The recipe of image id in scene number `scene`.
RecipeOf(scene, id) == RecipeList[((scene + id) % Len(RecipeList)) + 1]

SceneImages(scene) == [k \in 1 .. NumImages |-> Built(RecipeOf(scene, k - 1), k - 1).image]

\* Instance 2k-1 is the built instance of image k-1, instance 2k its clone.
SceneInstances == [i \in 1 .. 2 * NumImages |-> [base |-> (i + 1) \div 2, gpu_data |-> i]]

SceneBuffers(scene) ==
    [i \in 1 .. 2 * NumImages |->
        LET id == ((i + 1) \div 2) - 1
            data == Built(RecipeOf(scene, id), id).gpu_data
            color == LastHandle(Authored(RecipeOf(scene, id), id).handles, "color")
        IN  IF i % 2 = 1 THEN data
            ELSE GpuMemory_set(data, color, GpuColorF(1)).buffer]

InitLayer ==
    /\ layer = LayerBuilder_new
    /\ layer_added = <<>>
    /\ device = Device_new
    /\ dev_calls = <<>>
    /\ built = NoLayer
    /\ layer_panic = FALSE

InitScene ==
    \E scene \in 0 .. Len(RecipeList) - 1 :
        /\ ctx = [next_vector_image_id |-> NumImages, next_geometry_id |-> NumImages]
        /\ builder = NoBuilder
        /\ geom = NoGeom
        /\ handles = <<>>
        /\ img_call = NoCall
        /\ img_panic = FALSE
        /\ img_sets = 0
        /\ images = SceneImages(scene)
        /\ instances = SceneInstances
        /\ buffers = SceneBuffers(scene)
        /\ inst_call = NoCall
        /\ inst_panic = FALSE
        /\ inst_sets = 0

LayerFrame == UNCHANGED <<addrVars, layoutVars, memVars, imageVars, instVars, ctxVars, rangeVars, renderVars>>

LayerAdd ==
    /\ ~built.done
    /\ ~layer_panic
    /\ Len(layer_added) < MaxLayerAdds
    /\ \E i \in 1 .. Len(instances) :
          /\ layer' = LayerBuilder_add(layer, images, instances, i)
          /\ layer_added' = Append(layer_added, i)
    /\ UNCHANGED <<device, dev_calls, built, layer_panic>>
    /\ LayerFrame

\* The orders in which a map with the keys `keys` can hand out its entries.
Orders(keys) ==
    {o \in [1 .. Cardinality(keys) -> keys] : \A i, j \in DOMAIN o : i # j => o[i] # o[j]}

LayerBuild ==
    /\ ~built.done
    /\ ~layer_panic
    /\ \E order \in Orders(DOMAIN layer.vector_images) :
          \E r \in {LayerBuilder_build(layer, order, AllInstMem, device, overflow_checks)} :
              /\ layer' = r.layer
              /\ device' = r.st.device
              /\ dev_calls' = dev_calls \o r.st.calls
              /\ layer_panic' = r.st.panic
              /\ built' = IF r.st.panic THEN NoLayer
                          ELSE [done |-> TRUE, fill_pass |-> r.st.fill_pass,
                                stroke_pass |-> r.st.stroke_pass]
    /\ UNCHANGED layer_added
    /\ LayerFrame

NextLayer ==
    \/ LayerAdd
    \/ LayerBuild

(***************************************************************************)
(* SpecContext: one Context, from Context::new on; every call hands out a  *)
(* new builder.                                                            *)
(***************************************************************************)
new_layer(c) == ContextResult(c, LayerBuilder_new)

InitContext ==
    /\ ctx = Context_new
    /\ builder = NoBuilder
    /\ geom = NoGeom
    /\ handles = <<>>
    /\ img_call = NoCall
    /\ img_panic = FALSE
    /\ img_sets = 0

Issued(kind, id) == [kind |-> kind, id |-> id]

NewVectorImage ==
    /\ Len(ctx_issued) < MaxCtxCalls
    /\ \E r \in {new_vector_image(ctx)} :
          /\ ctx' = r.ctx
          /\ builder' = r.ret
          /\ ctx_issued' = Append(ctx_issued, Issued("VectorImageId", r.ret.id))
    /\ UNCHANGED <<geom, handles, img_call, img_panic, img_sets>>
    /\ UNCHANGED <<addrVars, layoutVars, memVars, instVars, layerVars, rangeVars, renderVars>>

NewGeometry ==
    /\ Len(ctx_issued) < MaxCtxCalls
    /\ \E r \in {new_geometry(ctx)} :
          /\ ctx' = r.ctx
          /\ geom' = r.ret
          /\ ctx_issued' = Append(ctx_issued, Issued("GeometryId", r.ret.id))
    /\ UNCHANGED <<builder, handles, img_call, img_panic, img_sets>>
    /\ UNCHANGED <<addrVars, layoutVars, memVars, instVars, layerVars, rangeVars, renderVars>>

NewLayer ==
    /\ Len(ctx_issued) < MaxCtxCalls
    /\ \E r \in {new_layer(ctx)} :
          /\ ctx' = r.ctx
          /\ layer' = r.ret
          /\ ctx_issued' = Append(ctx_issued, Issued("none", -1))
    /\ UNCHANGED <<builder, geom, handles, img_call, img_panic, img_sets>>
    /\ UNCHANGED <<layer_added, device, dev_calls, built, layer_panic>>
    /\ UNCHANGED <<addrVars, layoutVars, memVars, instVars, rangeVars, renderVars>>

NextContext ==
    \/ NewVectorImage
    \/ NewGeometry
    \/ NewLayer

(***************************************************************************)
(* SpecDevice: one Device and the range of its last allocation, walked by  *)
(* shrink_left, in a build with or without overflow checks.                *)
(***************************************************************************)
AllocSizes == {FromNat(n) : n \in 0 .. MaxAllocSize}
                  \cup {Word(1, 0), Word(HeaderSpan - 1, OffsetSpan - 1)}
Amounts == {FromNat(n) : n \in 0 .. MaxAllocSize} \cup {Word(1, 0)}

AnyBuild ==
    /\ layout = MemoryLayout_new("Shared")
    /\ layout_call = NoCall
    /\ layout_panic = FALSE
    /\ overflow_checks \in BOOLEAN

DeviceFrame == UNCHANGED <<addrVars, layoutVars, memVars, imageVars, instVars, ctxVars, renderVars>>

Allocate ==
    /\ ~dev_panic
    /\ Len(dev_calls) < MaxAllocs
    /\ \E size \in AllocSizes :
          \E r \in {allocate_gpu_data(device, size, overflow_checks)} :
              /\ device' = r.device
              /\ dev_panic' = r.panic
              /\ dev_calls' = IF r.panic THEN dev_calls
                               ELSE Append(dev_calls, [op |-> "allocate_gpu_data",
                                                       size |-> size, range |-> r.ret])
              /\ dev_range' = r.ret
              /\ range_call' = [op |-> "allocate_gpu_data", size |-> size,
                                 shrinks |-> range_call.shrinks]
    /\ UNCHANGED <<layer, layer_added, built, layer_panic>>
    /\ DeviceFrame

\* shrunk is the sum of the amounts of the calls that returned since the allocation.
ShrinkLeft ==
    /\ ~dev_panic
    /\ dev_range # NoRange
    /\ range_call.shrinks < MaxShrinks
    /\ \E amount \in Amounts :
          \E r \in {shrink_left(dev_range, amount, overflow_checks)} :
              /\ dev_range' = r.value
              /\ dev_panic' = r.panic
              /\ range_call' = [op |-> "shrink_left", amount |-> amount,
                                 before |-> dev_range,
                                 shrunk |-> (IF range_call.op = "shrink_left"
                                             THEN range_call.shrunk ELSE 0)
                                            + (IF r.panic THEN 0 ELSE ToNat(amount)),
                                 shrinks |-> range_call.shrinks + 1]
    /\ UNCHANGED layerVars
    /\ DeviceFrame

NextDevice ==
    \/ Allocate
    \/ ShrinkLeft

(***************************************************************************)
(* SpecRender: the Layers of one Context and render_all over them.  A      *)
(* Layer is built as in SpecLayer, here in one step: new_layer, the add    *)
(* calls of a list of instances, build.                                    *)
(***************************************************************************)
\* The built instances of the scene's images, in id order.
BuiltInstances == [k \in 1 .. NumImages |-> 2 * k - 1]

Reverse(s) == [k \in 1 .. Len(s) |-> s[Len(s) + 1 - k]]

\* The first images of the scene, in id order or in the opposite one.
AddLists ==
    {SubSeq(BuiltInstances, 1, k) : k \in 0 .. NumImages}
        \cup {Reverse(SubSeq(BuiltInstances, 1, k)) : k \in 0 .. NumImages}

RECURSIVE AddAll(_, _, _, _)
AddAll(l, imgs, insts, adds) ==
    IF adds = <<>> THEN l
    ELSE AddAll(LayerBuilder_add(l, imgs, insts, Head(adds)), imgs, insts, Tail(adds))

\* The layers are built before the render loop starts.
BuildLayer ==
    /\ ~layer_panic
    /\ render_call.count = 0
    /\ Len(layers) < MaxLayers
    /\ \E adds \in AddLists :
          \E l \in {AddAll(new_layer(ctx).ret, images, instances, adds)} :
              \E order \in Orders(DOMAIN l.vector_images) :
                  \E r \in {LayerBuilder_build(l, order, AllInstMem, device, overflow_checks)} :
                      /\ device' = r.st.device
                      /\ dev_calls' = dev_calls \o r.st.calls
                      /\ layer_panic' = r.st.panic
                      /\ layers' = IF r.st.panic THEN layers
                                    ELSE Append(layers, [fill_pass |-> r.st.fill_pass,
                                                         stroke_pass |-> r.st.stroke_pass])
    /\ UNCHANGED <<layer, layer_added, built, render_call>>
    /\ UNCHANGED <<addrVars, layoutVars, memVars, imageVars, instVars, ctxVars, rangeVars>>

\* The iterator walks the layers from the first built or from the last.
RenderAll ==
    /\ ~layer_panic
    /\ render_call.count < MaxRenders
    /\ \E layer_iter \in {layers, Reverse(layers)} :
          /\ dev_calls' = render_all(layer_iter, dev_calls)
          /\ render_call' = [op |-> "render_all", layer_iter |-> layer_iter,
                              before |-> dev_calls, count |-> render_call.count + 1]
    /\ UNCHANGED <<layer, layer_added, device, built, layer_panic, layers>>
    /\ UNCHANGED <<addrVars, layoutVars, memVars, imageVars, instVars, ctxVars, rangeVars>>

NextRender ==
    \/ BuildLayer
    \/ RenderAll

(***************************************************************************)
(* Specifications.                                                         *)
(***************************************************************************)
InitSpecAddr == InitAddr /\ IdleLayout /\ InitMem /\ InitImage /\ NoInstances /\ InitLayer /\ NoIssued /\ NoRangeCall /\ NoRender
SpecAddr == InitSpecAddr /\ [][NextAddr]_vars

InitSpecLayout == InitAddr /\ InitLayout /\ InitMem /\ InitImage /\ NoInstances /\ InitLayer /\ NoIssued /\ NoRangeCall /\ NoRender
SpecLayout == InitSpecLayout /\ [][NextLayout]_vars

InitSpecImage == InitAddr /\ IdleLayout /\ InitMem /\ InitImage /\ NoInstances /\ InitLayer /\ NoIssued /\ NoRangeCall /\ NoRender
SpecImage == InitSpecImage /\ [][NextImage]_vars

InitSpecInstance == InitAddr /\ IdleLayout /\ InitMem /\ InitInstance /\ InitLayer /\ NoIssued /\ NoRangeCall /\ NoRender
SpecInstance == InitSpecInstance /\ [][NextInstance]_vars

InitSpecLayer == InitAddr /\ IdleLayout /\ InitMem /\ InitScene /\ InitLayer /\ NoIssued /\ NoRangeCall /\ NoRender
SpecLayer == InitSpecLayer /\ [][NextLayer]_vars

InitSpecMem == InitAddr /\ IdleLayout /\ InitMem /\ InitImage /\ NoInstances /\ InitLayer /\ NoIssued /\ NoRangeCall /\ NoRender
SpecMem == InitSpecMem /\ [][NextMem]_vars

InitSpecContext == InitAddr /\ IdleLayout /\ InitMem /\ InitContext /\ NoInstances /\ InitLayer /\ NoIssued /\ NoRangeCall /\ NoRender
SpecContext == InitSpecContext /\ [][NextContext]_vars

InitSpecDevice == InitAddr /\ AnyBuild /\ InitMem /\ InitImage /\ NoInstances /\ InitLayer /\ NoIssued /\ NoRangeCall /\ NoRender
SpecDevice == InitSpecDevice /\ [][NextDevice]_vars

InitSpecRender == InitAddr /\ IdleLayout /\ InitMem /\ InitScene /\ InitLayer /\ NoIssued /\ NoRangeCall /\ NoRender
SpecRender == InitSpecRender /\ [][NextRender]_vars

(***************************************************************************)
(* Claims.                                                                 *)
(***************************************************************************)

Constructors == {"new", "global", "instance", "shared"}

\* C6: a constructor given an offset with no header bit set returns an address
\* whose address_type() is the requested memory space and whose offset() is the
\* given offset; given an offset that overlaps the header bits it fails by
\* assertion.
C6_ConstructorRoundTrip ==
    addr_call.op \in Constructors =>
        IF And32(addr_call.arg, GPU_ADDR_HEADER_MASK) = Word(0, 0)
        THEN /\ ~addr_panic
             /\ address_type(addr) = addr_call.ty
             /\ offset(addr) = ToNat(addr_call.arg)
        ELSE addr_panic

C6_Witness ==
    /\ addr_call.op = "new"
    /\ addr_call.ty = "Instance"
    /\ addr_call.arg = Word(0, OffsetSpan - 1)
    /\ ~addr_panic
    /\ address_type(addr) = "Instance"

MemberOffset(i) == offset(layout.members[i].offset)
MemberType(i) == layout.members[i].ty

IsPrefix(s, t) == Len(s) <= Len(t) /\ SubSeq(t, 1, Len(s)) = s

\* C7: the offsets of the recorded members are strictly increasing in call
\* order, each is a multiple of its type's alignment, no member overlaps the
\* one before it, and an alloc call only ever appends to the member list.
C7_MembersIncreasingAligned ==
    /\ \A i \in 1 .. Len(layout.members) :
          /\ DataType_alignment(MemberType(i)) # FromNat(0)
          /\ Mod32(FromNat(MemberOffset(i)), DataType_alignment(MemberType(i))) = FromNat(0)
    /\ \A i \in 1 .. Len(layout.members) - 1 :
          /\ MemberOffset(i) < MemberOffset(i + 1)
          /\ ~Less32(FromNat(MemberOffset(i + 1)),
                     Add32(FromNat(MemberOffset(i)), MemberType(i).size))
    /\ layout_call.op = "alloc" => IsPrefix(layout_call.before.members, layout.members)

\* The padding as the claim writes it, (alignment - s % alignment) % alignment,
\* and the aligned offset s + padding as a number (at full width).
Padding(s, a) == Mod32(Sub32(a, Mod32(s, a)), a)
Aligned(s, a) == Add32(s, Padding(s, a))

\* Aligned(s, a) is the smallest multiple of a that is >= s.
IsAlignedUp(s, a) ==
    /\ Mod32(Aligned(s, a), a) = FromNat(0)
    /\ Less32(Padding(s, a), a)

AllocReturned(off, size) ==
    /\ ~layout_panic
    /\ layout_call.ret = GpuAddress_new(layout.mem_type, off).value
    /\ FromNat(offset(layout_call.ret)) = off
    /\ address_type(layout_call.ret) = layout.mem_type
    /\ layout.mem_type = layout_call.before.mem_type
    /\ layout.size = size
    /\ layout.members =
          Append(layout_call.before.members,
                 [ty |-> layout_call.ty, offset |-> layout_call.ret])

AllocContract ==
    LET ty == layout_call.ty
        s == layout_call.before.size
        a == DataType_alignment(ty)
    IN  /\ a # FromNat(0)
        /\ IsAlignedUp(s, a)
        /\ AllocReturned(Aligned(s, a), Add32(Aligned(s, a), ty.size))

AllocPanicked == layout_panic /\ layout = layout_call.before

C9_PushThenSet ==
    (mem_call.op = "set" /\ mem_records[mem_call.record].len = Len(mem_call.block)) =>
        LET a == offset(mem_call.addr)
            n == Len(mem_call.block)
        IN  /\ ~mem_panic
            /\ address_type(mem_call.addr) = "Global"
            /\ Len(mem) = Len(mem_call.before)
            /\ \A i \in 1 .. Len(mem) :
                  mem[i] = IF a < i /\ i <= a + n THEN mem_call.block[i - a]
                           ELSE mem_call.before[i]

C9_Witness ==
    /\ mem_call.op = "set"
    /\ mem_call.record = 1
    /\ Len(mem_records) = 2
    /\ mem_records[1].len = 8
    /\ mem_call.block = BlockOf(8, 1)
    /\ mem_call.before = BlockOf(8, 0) \o BlockOf(4, 0)
    /\ mem = BlockOf(8, 1) \o BlockOf(4, 0)

PushOps == {"add_transform", "add_color", "fill", "stroke"}

\* C10: a handle returned by add_transform, add_color, fill or stroke is the
\* global address of the buffer length before the push; the handles of one
\* builder are strictly increasing (hence pairwise distinct) multiples of 4,
\* and a push leaves every word already in the buffer as it was.
C10_HandlesAreOffsets ==
    /\ \A i \in 1 .. Len(handles) :
          /\ address_type(handles[i].addr) = "Global"
          /\ offset(handles[i].addr) % 4 = 0
          /\ \A j \in i + 1 .. Len(handles) :
                offset(handles[i].addr) < offset(handles[j].addr)
    /\ (img_call.op \in PushOps /\ ~img_panic) =>
          /\ handles[Len(handles)].addr = img_call.ret
          /\ address_type(img_call.ret) = "Global"
          /\ offset(img_call.ret) = Len(img_call.before)
          /\ IsPrefix(img_call.before, builder.gpu_data)
          /\ Len(builder.gpu_data) > Len(img_call.before)

C10_Witness ==
    /\ img_call.op = "fill"
    /\ ~img_panic
    /\ Len(handles) = 3
    /\ handles[1].kind = "transform"
    /\ handles[2].kind = "color"
    /\ offset(handles[2].addr) = 8
    /\ offset(img_call.ret) = 12
    /\ Len(builder.gpu_data) = 16

\* C4: a set on one instance's memory leaves every word of every other
\* instance's memory unchanged, whichever of them is the clone; a clone starts
\* with a copy of its source's words; and all of them keep referring to the
\* one shared image, whose descriptor never changes.
C4_CloneIsolation ==
    /\ \A i, j \in 1 .. Len(instances) : instances[i].base = instances[j].base
    /\ inst_call.op = "set" =>
          /\ images = inst_call.images
          /\ \A j \in 1 .. Len(instances) :
                /\ instances[j].base = inst_call.bases[j]
                /\ j # inst_call.inst => InstMem(j) = inst_call.before[j]
    /\ inst_call.op = "clone_instance" =>
          /\ images = inst_call.images
          /\ instances[Len(instances)].base = inst_call.bases[inst_call.inst]
          /\ InstMem(Len(instances)) = inst_call.before[inst_call.inst]
          /\ \A j \in 1 .. Len(instances) - 1 :
                /\ instances[j].base = inst_call.bases[j]
                /\ InstMem(j) = inst_call.before[j]

C4_Witness ==
    /\ Len(instances) = 2
    /\ inst_call.op = "set"
    /\ inst_call.inst = 2
    /\ ~inst_panic
    /\ InstMem(2) # inst_call.before[2]
    /\ InstMem(1) = inst_call.before[1]
    /\ InstMem(1) # InstMem(2)

\* The bucket an added instance falls into, the instances added to a bucket,
\* and the Device calls of a build.
KeyOf(i) == images[instances[i].base].id + 1
AddedKeys == {KeyOf(layer_added[n]) : n \in 1 .. Len(layer_added)}
NumAdded(key) == Cardinality({n \in 1 .. Len(layer_added) : KeyOf(layer_added[n]) = key})
IsAllocate(call) == call.op = "allocate_gpu_data"
IsUpload(call) == call.op = "set_gpu_data"
AllocateCalls == SelectSeq(dev_calls, IsAllocate)
UploadCalls == SelectSeq(dev_calls, IsUpload)
UploadsOf(key) ==
    LET OfKey(call) == IsUpload(call) /\ KeyOf(call.instance) = key
    IN  SelectSeq(dev_calls, OfKey)

\* C1: in a build, the k-th instance (in sorted order) of every bucket is
\* uploaded to the sub-range [base + k*mem_per_instance,
\* base + (k+1)*mem_per_instance) of the bucket's allocation, and no two
\* instances of a bucket are uploaded to the same range.
C1_InstanceSubRanges ==
    built.done =>
        \A key \in DOMAIN layer.vector_images :
            LET item == layer.vector_images[key]
                base == offset(item.allocated_range.start)
                m == item.descriptor.mem_per_instance
                ups == UploadsOf(key)
            IN  /\ Len(ups) = Len(item.instances)
                /\ \A k \in 1 .. Len(ups) :
                      /\ ups[k].instance = item.instances[k].instance
                      /\ offset(ups[k].range.start) = base + (k - 1) * m
                      /\ offset(ups[k].range.end) = base + k * m
                /\ \A k, n \in 1 .. Len(ups) : k # n => ups[k].range # ups[n].range

CmdsOf(pass, key) == {p \in 1 .. Len(pass) : pass[p].geometry = images[key].geometry}

\* The DrawCmd a pass must hold for the image in bucket `key`.
ExpectedCmd(key) ==
    [geometry |-> images[key].geometry,
     num_instances |-> NumAdded(key),
     base_address |-> layer.vector_images[key].allocated_range.start]

\* C3: in a built Layer, for each distinct image added: the fill pass holds
\* exactly one DrawCmd of the image if it contains fill ops and none
\* otherwise, the stroke pass exactly one if it contains stroke ops and none
\* otherwise; each has the number of instances added, the image's geometry
\* and the start of the image's allocated range.  The passes hold nothing else.
C3_DrawCmdPerImagePerPass ==
    built.done =>
        /\ \A key \in AddedKeys :
              /\ Cardinality(CmdsOf(built.fill_pass, key))
                     = IF images[key].contains_fill_ops THEN 1 ELSE 0
              /\ Cardinality(CmdsOf(built.stroke_pass, key))
                     = IF images[key].contains_stroke_ops THEN 1 ELSE 0
              /\ \A p \in CmdsOf(built.fill_pass, key) :
                    built.fill_pass[p] = ExpectedCmd(key)
              /\ \A p \in CmdsOf(built.stroke_pass, key) :
                    built.stroke_pass[p] = ExpectedCmd(key)
        /\ \A p \in 1 .. Len(built.fill_pass) :
              \E key \in AddedKeys : p \in CmdsOf(built.fill_pass, key)
        /\ \A p \in 1 .. Len(built.stroke_pass) :
              \E key \in AddedKeys : p \in CmdsOf(built.stroke_pass, key)

C3_Witness ==
    /\ built.done
    /\ AddedKeys = {1}
    /\ NumAdded(1) = 2
    /\ images[1].contains_fill_ops
    /\ ~images[1].contains_stroke_ops
    /\ built.stroke_pass = <<>>
    /\ Len(built.fill_pass) = 1
    /\ built.fill_pass[1].num_instances = 2
    /\ built.fill_pass[1].geometry = images[1].geometry
    /\ offset(built.fill_pass[1].base_address) = 0

\* Every instance of bucket a was recorded with a smaller z-index than every
\* instance of bucket b.
AllBelow(a, b) ==
    \A x \in 1 .. Len(layer.vector_images[a].instances) :
        \A y \in 1 .. Len(layer.vector_images[b].instances) :
            layer.vector_images[a].instances[x].z_index
                < layer.vector_images[b].instances[y].z_index

DepthOrdered(pass) ==
    \A a, b \in AddedKeys :
        (a # b /\ AllBelow(a, b)) =>
            \A p \in CmdsOf(pass, a) : \A q \in CmdsOf(pass, b) : p < q

\* C5: in a built Layer the draw commands of each pass are ordered by depth:
\* if every instance of image A lies below every instance of image B and both
\* contribute to a pass, A's DrawCmd precedes B's in it, in every build.
C5_PassesDepthOrdered ==
    built.done => DepthOrdered(built.fill_pass) /\ DepthOrdered(built.stroke_pass)

\* The draw ops (fill and stroke calls) among the builder's calls, the
\* number of draw ops made before call k, and the words of instance i's
\* memory from address a on.
DrawKinds == {"fill", "stroke"}
OpsOf(kind) == {k \in 1 .. Len(handles) : handles[k].kind = kind}
DrawOpsBefore(k) == Cardinality({j \in 1 .. k - 1 : handles[j].kind \in DrawKinds})
WordsAt(i, a, n) == SubSeq(InstMem(i), a + 1, a + n)

\* C11: after build, the vertices generated for a fill op carry as prim_id
\* the address fill returned, every fill vertex belongs to a fill op, and the
\* 4 words at that address are [z-index of the op, color id, transform id 0,
\* transform id 1] in the built instance and in every clone of it.
C11_FillPrimitiveRecords ==
    (builder = NoBuilder /\ ~img_panic) =>
        /\ \A k \in OpsOf("fill") :
              /\ Cardinality({v \in 1 .. Len(geom.fill) :
                                 geom.fill[v].prim_id = ToNat(handles[k].addr)}) = VertsPerPath
              /\ \A i \in 1 .. Len(instances) :
                    WordsAt(i, offset(handles[k].addr), 4)
                        = <<U32Word(DrawOpsBefore(k)),
                            U32Word(ToNat(handles[k].args[1])),
                            U32Word(ToNat(handles[k].args[2])),
                            U32Word(ToNat(handles[k].args[3]))>>
        /\ \A v \in 1 .. Len(geom.fill) :
              \E k \in OpsOf("fill") : geom.fill[v].prim_id = ToNat(handles[k].addr)

C11_Witness ==
    /\ builder = NoBuilder
    /\ Len(instances) = 2
    /\ inst_call.op = "set"
    /\ InstMem(1) # InstMem(2)
    /\ \E k \in OpsOf("fill") :
          /\ DrawOpsBefore(k) = 1
          /\ geom.fill[1].prim_id = ToNat(handles[k].addr)
          /\ WordsAt(2, offset(handles[k].addr), 4)[1] = U32Word(1)

\* The memory the builder's calls have written: the builder's own until
\* build, the built instance's afterwards.
AuthoredMem == IF builder # NoBuilder THEN builder.gpu_data ELSE InstMem(1)
DrawOps == OpsOf("fill") \cup OpsOf("stroke")

\* C12: on one builder, whatever the interleaving of fill and stroke calls,
\* the k-th draw op (counted from 0, fills and strokes together) is given
\* z-index k, the first word of its primitive; no two draw ops share a
\* z-index; the builder's counter is the number of draw ops made, and the
\* z_range of the built image is that number.
C12_ZIndexPerDrawOp ==
    ~img_panic =>
        /\ \A k \in DrawOps :
              AuthoredMem[offset(handles[k].addr) + 1] = U32Word(DrawOpsBefore(k))
        /\ \A k, j \in DrawOps :
              k # j => AuthoredMem[offset(handles[k].addr) + 1]
                           # AuthoredMem[offset(handles[j].addr) + 1]
        /\ builder # NoBuilder => builder.z_index = Cardinality(DrawOps)
        /\ builder = NoBuilder => images[1].z_range = Cardinality(DrawOps)

C12_Witness ==
    /\ ~img_panic
    /\ builder = NoBuilder
    /\ images[1].z_range = 2
    /\ Len(handles) = 4
    /\ handles[3].kind = "stroke"
    /\ handles[4].kind = "fill"
    /\ AuthoredMem[offset(handles[3].addr) + 1] = U32Word(0)
    /\ AuthoredMem[offset(handles[4].addr) + 1] = U32Word(1)

\* The z_range of the image the n-th add call was given an instance of, the
\* sum of the z_ranges of the calls before the n-th, and the calls that went
\* to bucket `key`, in call order.
ZRangeOfAdd(n) == images[instances[layer_added[n]].base].z_range
RECURSIVE ZBefore(_)
ZBefore(n) == IF n <= 1 THEN 0 ELSE ZBefore(n - 1) + ZRangeOfAdd(n - 1)
AddsOf(key) ==
    LET Mine(n) == KeyOf(layer_added[n]) = key
    IN  SelectSeq([n \in 1 .. Len(layer_added) |-> n], Mine)

IssuedIds(kind) == {k \in 1 .. Len(ctx_issued) : ctx_issued[k].kind = kind}

ImagePatternCall == img_call.op \in DrawKinds /\ img_call.args[1] = ImagePattern.color

\* C16: a fill or a stroke whose pattern is Pattern::Image panics: it returns
\* no id, records no draw command and writes no word of gpu_data.
C16_ImagePatternPanics ==
    ImagePatternCall =>
        /\ img_panic
        /\ img_call.ret = NoAddr
        /\ \A k \in 1 .. Len(handles) : handles[k].args # img_call.args
        /\ builder.gpu_data = img_call.before
        /\ builder.opaque_fill_cmds = img_call.cmds[1]
        /\ builder.opaque_stroke_cmds = img_call.cmds[2]

C16_Witness ==
    /\ ImagePatternCall
    /\ img_call.op = "fill"
    /\ img_panic
    /\ Len(builder.opaque_fill_cmds) = 1
    /\ Len(builder.gpu_data) = 12 + 4

\* The record the buffer word at index i (from 1) was pushed in.
RecordOfWord(i) ==
    CHOOSE k \in 1 .. Len(mem_records) :
        offset(mem_records[k].addr) < i /\ i <= offset(mem_records[k].addr) + mem_records[k].len

\* C17: a set at a record's address with a block longer than that record, when
\* another record follows it, panics, and a set leaves every word of every other
\* record as it was.
C17_SetPastRecordPanics ==
    mem_call.op = "set" =>
        /\ (/\ Len(mem_call.block) > mem_records[mem_call.record].len
            /\ mem_call.record < Len(mem_records)) => mem_panic
        /\ \A i \in 1 .. Len(mem) :
              RecordOfWord(i) # mem_call.record => mem[i] = mem_call.before[i]

\* The range as allocate_gpu_data returned it.
AllocatedRange == dev_calls[Len(dev_calls)].range

\* The signed distance from start to end.
RangeLength(r) == offset(r.end) - offset(r.start)

\* C18: shrink_left(amount) panics and leaves the range as it was whenever
\* amount exceeds end.offset() - start.offset(); otherwise it returns with
\* start's offset advanced by amount and end unchanged, and a range of length L
\* shrunk by amounts summing to L is empty.
C18_ShrinkLeft ==
    range_call.op = "shrink_left" =>
        LET before == range_call.before
            amount == range_call.amount
        IN  IF RangeLength(before) < 0 \/ Less32(FromNat(RangeLength(before)), amount)
            THEN dev_panic /\ dev_range = before
            ELSE /\ ~dev_panic
                 /\ offset(dev_range.start) = offset(before.start) + ToNat(amount)
                 /\ dev_range.end = before.end
                 /\ (range_call.shrunk = RangeLength(AllocatedRange)) => is_empty(dev_range)

\* The addresses of a range: start's offset up to, not including, end's.
AddressesOf(r) == offset(r.start) .. offset(r.end) - 1

\* C19: every range allocate_gpu_data returns has both ends tagged global and
\* end.offset() - start.offset() equal to the size asked for, and shares no
\* address with a range an earlier call returned.
C19_AllocationsDisjoint ==
    range_call.op \in {"allocate_gpu_data", "shrink_left"} =>
        \A k \in 1 .. Len(dev_calls) :
            LET range == dev_calls[k].range
            IN  /\ address_type(range.start) = "Global"
                /\ address_type(range.end) = "Global"
                /\ FromNat(offset(range.end))
                      = Add32(FromNat(offset(range.start)), dev_calls[k].size)
                /\ \A j \in 1 .. k - 1 :
                      AddressesOf(dev_calls[j].range) \cap AddressesOf(range) = {}

\* The addresses fill (or stroke) returned, from the last call to the first.
RecordedReversed(kind) ==
    LET recorded == SelectSeq(handles, LAMBDA h : h.kind = kind)
    IN  [k \in 1 .. Len(recorded) |-> recorded[Len(recorded) + 1 - k].addr]

\* The primitive ids of the vertices of a buffer, one per path.
PathsOf(vertices) ==
    [k \in 1 .. Len(vertices) \div VertsPerPath |-> vertices[k * VertsPerPath].prim_id]

\* C20: build gives the recorded commands to the tessellators in the order
\* fills from the last recorded to the first, then strokes from the last
\* recorded to the first, each once; the vertices of the fill buffer and of
\* the stroke buffer lie in that order.  A build that panics has replayed a
\* prefix of that order.
C20_ReverseReplay ==
    img_call.op = "build" =>
        LET expected == RecordedReversed("fill") \o RecordedReversed("stroke")
        IN  /\ IsPrefix(img_call.replayed, expected)
            /\ ~img_panic =>
                  /\ img_call.replayed = expected
                  /\ Len(geom.fill) = VertsPerPath * Len(RecordedReversed("fill"))
                  /\ Len(geom.stroke) = VertsPerPath * Len(RecordedReversed("stroke"))
                  /\ PathsOf(geom.fill)
                        = [k \in 1 .. Len(RecordedReversed("fill")) |->
                               ToNat(RecordedReversed("fill")[k])]
                  /\ PathsOf(geom.stroke)
                        = [k \in 1 .. Len(RecordedReversed("stroke")) |->
                               ToNat(RecordedReversed("stroke")[k])]

C20_Witness ==
    /\ img_call.op = "build"
    /\ ~img_panic
    /\ Len(RecordedReversed("fill")) = 2
    /\ img_call.replayed = <<GpuAddress_global(FromNat(16)).value,
                             GpuAddress_global(FromNat(12)).value>>
    /\ PathsOf(geom.fill) = <<16, 12>>

\* C21: alignment() is 1 for size 1, 2 for size 2, 4 for size 3 and for every
\* other size the largest multiple of 4 not above it; for a size of 1 or more
\* it is at least 1.
C21_AlignmentTable ==
    layout_call.op = "alloc" =>
        LET n == layout_call.ty.size
            a == layout_call.alignment
        IN  /\ CASE n = FromNat(1) -> a = FromNat(1)
                 [] n = FromNat(2) -> a = FromNat(2)
                 [] n = FromNat(3) -> a = FromNat(4)
                 [] OTHER -> /\ Mod32(a, FromNat(4)) = FromNat(0)
                             /\ ~Less32(n, a)
                             /\ Less32(Sub32(n, a), FromNat(4))
            /\ n # FromNat(0) => Less32(FromNat(0), a)

C21_Witness ==
    /\ layout_call.op = "alloc"
    /\ layout_call.ty = [scalar |-> "F32", size |-> FromNat(6)]
    /\ layout_call.alignment = FromNat(4)
    /\ layout_call.before.size = FromNat(16)
    /\ ~layout_panic

\* C22: add_assign(val) on an address of any memory space with offset o, val
\* having no header bit set and o + val fitting the offset field, returns with
\* offset() = o + val and address_type() as it was before the call.
C22_AddAssignKeepsType ==
    (/\ addr_call.op = "add_assign"
     /\ And32(addr_call.arg, GPU_ADDR_HEADER_MASK) = Word(0, 0)
     /\ offset(addr_call.before) + addr_call.arg.offset < OffsetSpan) =>
        /\ ~addr_panic
        /\ offset(addr) = offset(addr_call.before) + addr_call.arg.offset
        /\ address_type(addr) = address_type(addr_call.before)

\* The Device calls the last render_all made.
RenderCalls ==
    SubSeq(dev_calls, Len(render_call.before) + 1,
           Len(render_call.before) + 2 * Len(render_call.layer_iter))

\* C23: render_all calls render_pass once for the fill pass of every layer, in
\* iterator order, and after all of them once for the stroke pass of every
\* layer, in iterator order; the fill passes with vertex type Fill, the stroke
\* passes with vertex type Stroke, all with blending disabled and depth write
\* and depth test enabled.
C23_FillPassesThenStrokePasses ==
    render_call.op = "render_all" =>
        LET layer_iter == render_call.layer_iter
            n == Len(layer_iter)
        IN  /\ IsPrefix(render_call.before, dev_calls)
            /\ Len(dev_calls) >= Len(render_call.before) + 2 * n
            /\ \A k \in 1 .. n :
                  /\ RenderCalls[k] =
                        [op |-> "render_pass", cmds |-> layer_iter[k].fill_pass,
                         options |-> [vertex_type |-> "Fill", enable_blending |-> FALSE,
                                      enable_depth_write |-> TRUE,
                                      enable_depth_test |-> TRUE, effect |-> 0]]
                  /\ RenderCalls[n + k] =
                        [op |-> "render_pass", cmds |-> layer_iter[k].stroke_pass,
                         options |-> [vertex_type |-> "Stroke", enable_blending |-> FALSE,
                                      enable_depth_write |-> TRUE,
                                      enable_depth_test |-> TRUE, effect |-> 0]]
            /\ \A k \in Len(render_call.before) + 2 * n + 1 .. Len(dev_calls) :
                  dev_calls[k].op # "render_pass"

C23_Witness ==
    /\ render_call.op = "render_all"
    /\ Len(render_call.layer_iter) = 2
    /\ render_call.layer_iter = Reverse(layers)
    /\ layers[1].fill_pass # <<>>
    /\ layers[1].stroke_pass # <<>>
    /\ layers[2].fill_pass # layers[1].fill_pass
    /\ Len(layers[2].stroke_pass) = 2

====
